---------------------------- MODULE Spec2Model ----------------------------
(***************************************************************************)
(* AdamWeightDecayOptimizer of src/optimizer.py as a state machine.        *)
(*                                                                         *)
(* Tensors are modelled as scalars (every operation of the update rule is  *)
(* elementwise) in fixed-point arithmetic: the integer k stands for the    *)
(* number k / Scale, every product, quotient and square root is rounded to *)
(* the nearest representable number, and NonFinite stands for the IEEE     *)
(* values NaN and +-Inf that a division by zero or the square root of a    *)
(* negative number produces.                                               *)
(*                                                                         *)
(* The optimizer object is `self` (the attributes __init__ sets),          *)
(* `tensors` (the *_t attributes _prepare sets), `_slots` (the slot        *)
(* dictionary of the base class) and `slot_vars` (the slot variables that  *)
(* were allocated).  `var_value` holds the parameters of the host.         *)
(* `running` is the group operation a dense apply returned, while its      *)
(* three assignments execute.  `call`, `log` and `decay` record what the   *)
(* calls did (the last call and its exception, the committed updates, the  *)
(* value _do_use_weight_decay returned) so that properties can speak of    *)
(* them.                                                                   *)
(***************************************************************************)
EXTENDS Integers, Sequences, FiniteSets, TLC

VARIABLES self, tensors, _slots, slot_vars, var_value, running, call, log,
          decay

vars == <<self, tensors, _slots, slot_vars, var_value, running, call, log,
          decay>>

---------------------------------------------------------------------------
(* Bounds of the model. *)

\* Dense applies that a run starts, over all parameters.
MaxSteps == 3

\* Length of an exclude_from_weight_decay list (weight-decay specification).
MaxPatterns == 2

---------------------------------------------------------------------------
(* Numbers: fixed point, k stands for k / Scale. *)

Scale == 1000

NonFinite == Scale * Scale * Scale

IsFinite(a) == a # NonFinite

Abs(a) == IF a < 0 THEN -a ELSE a

Sgn(a) == IF a < 0 THEN -1 ELSE 1

\* n / d rounded to the nearest integer, halves away from zero (d # 0).
RoundDiv(n, d) ==
  Sgn(n) * Sgn(d) * ((2 * Abs(n) + Abs(d)) \div (2 * Abs(d)))

RECURSIVE SqrtSearch(_, _, _)
\* The largest r in lo..hi with r * r <= n (lo * lo <= n is kept).
SqrtSearch(n, lo, hi) ==
  IF lo >= hi THEN lo
  ELSE LET mid == (lo + hi + 1) \div 2
       IN  IF mid * mid <= n THEN SqrtSearch(n, mid, hi)
           ELSE SqrtSearch(n, lo, mid - 1)

ISqrt(n) == SqrtSearch(n, 0, 40 * Scale)

tf_multiply(a, b) ==
  IF IsFinite(a) /\ IsFinite(b) THEN RoundDiv(a * b, Scale) ELSE NonFinite

tf_add(a, b) == IF IsFinite(a) /\ IsFinite(b) THEN a + b ELSE NonFinite

tf_subtract(a, b) == IF IsFinite(a) /\ IsFinite(b) THEN a - b ELSE NonFinite

tf_square(a) == tf_multiply(a, a)

\* sqrt of a negative number is NaN.
tf_sqrt(a) ==
  IF IsFinite(a) /\ a >= 0
  THEN LET r == ISqrt(a * Scale)
       IN  IF a * Scale - r * r > r THEN r + 1 ELSE r
  ELSE NonFinite

\* x / 0 is NaN (x = 0) or +-Inf (x # 0): no exception is raised.
tf_divide(a, b) ==
  IF IsFinite(a) /\ IsFinite(b) /\ b # 0 THEN RoundDiv(a * Scale, b)
  ELSE NonFinite

One == Scale

---------------------------------------------------------------------------
(* Names and regular expressions.  A string is a tuple of characters; a    *)
(* pattern is a tuple of literal characters and the anchors ^ and $.       *)

Str_bias == <<"b", "i", "a", "s">>

Str_kernel == <<"k", "e", "r", "n", "e", "l">>

Str_layer1 == <<"l", "a", "y", "e", "r", "1", "/">>

Name_layer1_bias == Str_layer1 \o Str_bias

Name_layer1_kernel == Str_layer1 \o Str_kernel

Pat_bias == Str_bias

Pat_anchored_bias == <<"^">> \o Str_bias \o <<"$">>

Pat_bias_end == Str_bias \o <<"$">>

Pat_kernel == Str_kernel

RECURSIVE MatchHere(_, _, _, _)
\* Whether pattern r, from its token i on, matches string s at position j.
MatchHere(r, i, s, j) ==
  IF i > Len(r) THEN TRUE
  ELSE IF r[i] = "^" THEN j = 1 /\ MatchHere(r, i + 1, s, j)
  ELSE IF r[i] = "$" THEN j = Len(s) + 1 /\ MatchHere(r, i + 1, s, j)
  ELSE j <= Len(s) /\ s[j] = r[i] /\ MatchHere(r, i + 1, s, j + 1)

\* re.match in place of re.search: the pattern must match at the start.
re_match(r, s) == MatchHere(r, 1, s, 1)

\* re.search(r, s) is not None: r matches at some position of s.
re_search(r, s) == \E j \in 1..(Len(s) + 1) : MatchHere(r, 1, s, j)

---------------------------------------------------------------------------
(* The parameters of the host: resource or reference variables.            *)

Params == {"bias", "kernel"}

\* var.name: the name of the variable's tensor, "<scope>/<name>:0".
VarName(p) ==
  (IF p = "bias" THEN Name_layer1_bias ELSE Name_layer1_kernel)
    \o <<":", "0">>

\* The initial value the host gives every parameter (1.0).
InitialValue == One

\* The gradients the host hands to apply (0.0 and 1.0).
Grads == {0, One}

SlotNames == {"m", "v"}

---------------------------------------------------------------------------
(* __init__: the arguments are stored as given; nothing is validated.      *)

NoExclude == [none |-> TRUE, list |-> <<>>]

Exclude(l) == [none |-> FALSE, list |-> l]

LearningRates == {100}

WeightDecayRates == {0, 10}

Beta1s == {900}

Beta2s == {999, 2000}

Epsilons == {1, 0}

\* (None and the other lists are those of the weight-decay specification.)
ExcludeLists == {Exclude(<<Pat_bias>>)}

Unconstructed ==
  [constructed |-> FALSE, learning_rate |-> 0, weight_decay_rate |-> 0,
   beta_1 |-> 0, beta_2 |-> 0, epsilon |-> 0,
   exclude_from_weight_decay |-> NoExclude]

__init__(learning_rate, weight_decay_rate, beta_1, beta_2, epsilon, exclude_from_weight_decay) ==
  [constructed |-> TRUE,
   learning_rate |-> learning_rate,
   weight_decay_rate |-> weight_decay_rate,
   beta_1 |-> beta_1,
   beta_2 |-> beta_2,
   epsilon |-> epsilon,
   exclude_from_weight_decay |-> exclude_from_weight_decay]

NoTensors ==
  [prepared |-> FALSE, learning_rate_t |-> 0, weight_decay_rate_t |-> 0,
   beta_1_t |-> 0, beta_2_t |-> 0, epsilon_t |-> 0]

\* ops.convert_to_tensor of a Python number: a constant tensor holding that
\* number (every hyperparameter of the model is representable).
convert_to_tensor(x) == x

\* math_ops.cast to var.dtype.base_dtype: all tensors of the model share one
\* dtype, whose precision is Scale.
cast(x) == x

_prepare(s) ==
  [prepared |-> TRUE,
   learning_rate_t |-> convert_to_tensor(s.learning_rate),
   weight_decay_rate_t |-> convert_to_tensor(s.weight_decay_rate),
   beta_1_t |-> convert_to_tensor(s.beta_1),
   beta_2_t |-> convert_to_tensor(s.beta_2),
   epsilon_t |-> convert_to_tensor(s.epsilon)]

\* The most recent call: the method, and the exception it raised.
NoError == "none"

NoCall == [op |-> "none", raised |-> NoError]

Returned(op) == [op |-> op, raised |-> NoError]

Raised(op, e) == [op |-> op, raised |-> e]

---------------------------------------------------------------------------
(* Slots.  _slots[n][p] is the serial number of the slot variable that the *)
(* dictionary of slot n holds for parameter p, 0 when it holds none;       *)
(* slot_vars maps every slot variable ever allocated, <<n, p, serial>>, to *)
(* its value.                                                              *)

None == 0

NoSlots == [n \in SlotNames |-> [p \in Params |-> None]]

NoSlotVars == [k \in {} |-> 0]

SlotVarsOf(sv, n, p) == {k \in DOMAIN sv : k[1] = n /\ k[2] = p}

\* A _zeros_slot that does not look the variable up first.
_zeros_slot_unchecked(st, v, slot_name) ==
  LET serial == Cardinality(SlotVarsOf(st.slot_vars, slot_name, v)) + 1
  IN  [slots |-> [st.slots EXCEPT ![slot_name][v] = serial],
       slot_vars |-> st.slot_vars @@ (<<slot_name, v, serial>> :> 0)]

\* Optimizer._zeros_slot: allocates a zero slot variable only when the
\* dictionary has no entry for the variable.  st is [slots, slot_vars].
_zeros_slot(st, v, slot_name) ==
  IF st.slots[slot_name][v] = None
  THEN LET serial == Cardinality(SlotVarsOf(st.slot_vars, slot_name, v)) + 1
       IN  [slots |-> [st.slots EXCEPT ![slot_name][v] = serial],
            slot_vars |-> st.slot_vars @@ (<<slot_name, v, serial>> :> 0)]
  ELSE st

RECURSIVE _create_slots(_, _, _)
\* for v in var_list: _zeros_slot(v, 'm'); _zeros_slot(v, 'v')
_create_slots(st, var_list, i) ==
  IF i > Len(var_list) THEN st
  ELSE _create_slots(
         _zeros_slot(_zeros_slot(st, var_list[i], "m"), var_list[i], "v"),
         var_list, i + 1)

\* Optimizer.get_slot: the slot variable of var, or None.
get_slot(var, name) == _slots[name][var]

SlotKey(var, name) == <<name, var, _slots[name][var]>>

\* The value of the slot variable get_slot returns (get_slot is not None).
SlotValue(var, name) == slot_vars[SlotKey(var, name)]

\* The var_list of a _create_slots call: one parameter, or both in either
\* order.
VarLists ==
  {<<p>> : p \in Params} \cup {<<p, q>> : p \in Params, q \in Params}

---------------------------------------------------------------------------
(* _do_use_weight_decay *)

RECURSIVE ExcludeLoop(_, _, _)
\* for r in exclude_from_weight_decay: if re.search(r, name): return False
ExcludeLoop(list, i, param_name) ==
  IF i > Len(list) THEN TRUE
  ELSE IF re_search(list[i], param_name) THEN FALSE
  ELSE ExcludeLoop(list, i + 1, param_name)

_do_use_weight_decay(s, param_name) ==
  IF s.weight_decay_rate = 0 THEN FALSE
  ELSE IF ~s.exclude_from_weight_decay.none
          /\ s.exclude_from_weight_decay.list # <<>>
       THEN ExcludeLoop(s.exclude_from_weight_decay.list, 1, param_name)
       ELSE TRUE

---------------------------------------------------------------------------
(* The dense update, lines 63-78 (and, word for word, 96-111).             *)

dense_next_m(t, grad, m) ==
  tf_add(tf_multiply(cast(t.beta_1_t), m),
         tf_multiply(tf_subtract(One, cast(t.beta_1_t)), grad))

dense_next_v(t, grad, v) ==
  tf_add(tf_multiply(cast(t.beta_2_t), v),
         tf_multiply(tf_subtract(One, cast(t.beta_2_t)), tf_square(grad)))

\* The dense applies that built their group operation.
Started ==
  Cardinality({p \in Params : running[p].active})
    + Len(log["bias"]) + Len(log["kernel"])

RECURSIVE Power(_, _)
Power(b, n) == IF n = 0 THEN One ELSE tf_multiply(b, Power(b, n - 1))

\* The update of classic Adam: the learning rate is corrected by the powers
\* of beta_1 and beta_2 of a global step counter.
dense_update_bias_corrected(t, grad, var, m, v, use_weight_decay) ==
  LET step == Started + 1
      lr_t == tf_divide(
                tf_multiply(cast(t.learning_rate_t),
                            tf_sqrt(tf_subtract(One, Power(t.beta_2_t, step)))),
                tf_subtract(One, Power(t.beta_1_t, step)))
      next_m == dense_next_m(t, grad, m)
      next_v == dense_next_v(t, grad, v)
      update == tf_divide(next_m, tf_add(tf_sqrt(next_v), cast(t.epsilon_t)))
      decayed == IF use_weight_decay
                 THEN tf_add(update, tf_multiply(cast(t.weight_decay_rate_t), var))
                 ELSE update
      next_param == tf_subtract(var, tf_multiply(lr_t, decayed))
  IN  [next_param |-> next_param, next_m |-> next_m, next_v |-> next_v]

dense_update(t, grad, var, m, v, use_weight_decay) ==
  LET next_m == dense_next_m(t, grad, m)
      next_v == dense_next_v(t, grad, v)
      update == tf_divide(next_m, tf_add(tf_sqrt(next_v), cast(t.epsilon_t)))
      decayed == IF use_weight_decay
                 THEN tf_add(update, tf_multiply(cast(t.weight_decay_rate_t), var))
                 ELSE update
      update_with_lr == tf_multiply(cast(t.learning_rate_t), decayed)
      next_param == tf_subtract(var, update_with_lr)
  IN  [next_param |-> next_param, next_m |-> next_m, next_v |-> next_v]

---------------------------------------------------------------------------
(* State and operations. *)

Idle ==
  [active |-> FALSE, pending |-> {}, grad |-> 0,
   var |-> 0, m |-> 0, v |-> 0,
   next_param |-> 0, next_m |-> 0, next_v |-> 0]

Init ==
  /\ self = Unconstructed
  /\ tensors = NoTensors
  /\ _slots = NoSlots
  /\ slot_vars = NoSlotVars
  /\ var_value = [p \in Params |-> InitialValue]
  /\ running = [p \in Params |-> Idle]
  /\ call = NoCall
  /\ log = [p \in Params |-> <<>>]
  /\ decay = [called |-> FALSE, param_name |-> <<>>, result |-> FALSE]

Construct ==
  /\ ~self.constructed
  /\ \E lr \in LearningRates, wd \in WeightDecayRates, b1 \in Beta1s,
        b2 \in Beta2s, eps \in Epsilons, ex \in ExcludeLists :
       self' = __init__(lr, wd, b1, b2, eps, ex)
  /\ call' = Returned("__init__")
  /\ UNCHANGED <<tensors, _slots, slot_vars, var_value, running, log, decay>>

Prepare ==
  /\ self.constructed
  /\ tensors' = _prepare(self)
  /\ call' = Returned("_prepare")
  /\ UNCHANGED <<self, _slots, slot_vars, var_value, running, log, decay>>

CreateSlots(var_list) ==
  /\ self.constructed
  /\ LET st == _create_slots([slots |-> _slots, slot_vars |-> slot_vars],
                             var_list, 1)
     IN  /\ _slots' = st.slots
         /\ slot_vars' = st.slot_vars
  /\ call' = Returned("_create_slots")
  /\ UNCHANGED <<self, tensors, var_value, running, log, decay>>

\* What a dense apply raises before it reaches the weight-decay decision:
\* the *_t attributes exist only after _prepare (lines 52-58, 85-91), and
\* tf.multiply of a tensor and None raises (lines 64-69, 97-102).
RaisedBeforeDecay(var) ==
  IF ~tensors.prepared THEN "AttributeError: learning_rate_t"
  ELSE IF get_slot(var, "m") = None \/ get_slot(var, "v") = None
       THEN "ValueError: None values not supported"
  ELSE NoError

\* The group operation of the three assignments, its inputs read.
Group(grad, var, m, v, use_weight_decay) ==
  LET u == dense_update(tensors, grad, var_value[var], m, v, use_weight_decay)
  IN  [active |-> TRUE, pending |-> {"var", "m", "v"}, grad |-> grad,
       var |-> var_value[var], m |-> m, v |-> v,
       next_param |-> u.next_param, next_m |-> u.next_m, next_v |-> u.next_v]

\* _apply_dense: line 73 calls self._get_variable_name, which neither this
\* class nor optimizer.Optimizer defines.
_apply_dense(grad, var) ==
  /\ self.constructed
  /\ ~running[var].active
  /\ call' = Raised("_apply_dense",
                    IF RaisedBeforeDecay(var) # NoError
                    THEN RaisedBeforeDecay(var)
                    ELSE "AttributeError: _get_variable_name")
  /\ UNCHANGED <<self, tensors, _slots, slot_vars, var_value, running, log,
                 decay>>

\* A dense apply that allocates the slots it does not find.
_resource_apply_dense_allocating(grad, var) ==
  /\ self.constructed
  /\ ~running[var].active
  /\ Started < MaxSteps
  /\ IF ~tensors.prepared
     THEN /\ call' = Raised("_resource_apply_dense", RaisedBeforeDecay(var))
          /\ UNCHANGED <<running, _slots, slot_vars>>
     ELSE LET st == _create_slots([slots |-> _slots, slot_vars |-> slot_vars],
                                  <<var>>, 1)
              m == st.slot_vars[<<"m", var, st.slots["m"][var]>>]
              v == st.slot_vars[<<"v", var, st.slots["v"][var]>>]
          IN  /\ call' = Returned("_resource_apply_dense")
              /\ _slots' = st.slots
              /\ slot_vars' = st.slot_vars
              /\ running' = [running EXCEPT ![var] =
                   Group(grad, var, m, v,
                         _do_use_weight_decay(self, VarName(var)))]
  /\ UNCHANGED <<self, tensors, var_value, log, decay>>

_resource_apply_dense(grad, var) ==
  /\ self.constructed
  /\ ~running[var].active
  /\ Started < MaxSteps
  /\ IF RaisedBeforeDecay(var) # NoError
     THEN /\ call' = Raised("_resource_apply_dense", RaisedBeforeDecay(var))
          /\ UNCHANGED running
     ELSE /\ call' = Returned("_resource_apply_dense")
          /\ running' = [running EXCEPT ![var] =
               Group(grad, var, SlotValue(var, "m"), SlotValue(var, "v"),
                     _do_use_weight_decay(self, VarName(var)))]
  /\ UNCHANGED <<self, tensors, _slots, slot_vars, var_value, log, decay>>

\* One of the grouped assignments has run; the group is done with the last.
Assigned(var, which) ==
  LET r == running[var]
      left == r.pending \ {which}
  IN  IF left # {}
      THEN /\ running' = [running EXCEPT ![var].pending = left]
           /\ UNCHANGED log
      ELSE /\ running' = [running EXCEPT ![var] = Idle]
           /\ log' = [log EXCEPT ![var] = Append(@,
                [grad |-> r.grad, var |-> r.var, m |-> r.m, v |-> r.v,
                 next_param |-> r.next_param, next_m |-> r.next_m,
                 next_v |-> r.next_v])]

\* An assignment that writes the new value to every parameter.
AssignVar_every(var) ==
  /\ running[var].active
  /\ "var" \in running[var].pending
  /\ var_value' = [q \in Params |-> running[var].next_param]
  /\ Assigned(var, "var")
  /\ UNCHANGED <<self, tensors, _slots, slot_vars, call, decay>>

\* var.assign(next_param)
AssignVar(var) ==
  /\ running[var].active
  /\ "var" \in running[var].pending
  /\ var_value' = [var_value EXCEPT ![var] = running[var].next_param]
  /\ Assigned(var, "var")
  /\ UNCHANGED <<self, tensors, _slots, slot_vars, call, decay>>

\* m.assign(next_m)
AssignM(var) ==
  /\ running[var].active
  /\ "m" \in running[var].pending
  /\ slot_vars' = [slot_vars EXCEPT ![SlotKey(var, "m")] = running[var].next_m]
  /\ Assigned(var, "m")
  /\ UNCHANGED <<self, tensors, _slots, var_value, call, decay>>

\* v.assign(next_v)
AssignV(var) ==
  /\ running[var].active
  /\ "v" \in running[var].pending
  /\ slot_vars' = [slot_vars EXCEPT ![SlotKey(var, "v")] = running[var].next_v]
  /\ Assigned(var, "v")
  /\ UNCHANGED <<self, tensors, _slots, var_value, call, decay>>

Next ==
  \/ Construct
  \/ Prepare
  \/ \E var_list \in VarLists : CreateSlots(var_list)
  \/ \E grad \in Grads, var \in Params : _apply_dense(grad, var)
  \/ \E grad \in Grads, var \in Params : _resource_apply_dense(grad, var)
  \/ \E var \in Params : AssignVar(var)
  \/ \E var \in Params : AssignM(var)
  \/ \E var \in Params : AssignV(var)

Spec == Init /\ [][Next]_vars

---------------------------------------------------------------------------
(* The weight-decay policy on its own: the optimizer is constructed with   *)
(* any rate and exclusion list, and _do_use_weight_decay is called with    *)
(* any name.                                                               *)

Patterns == {Pat_bias, Pat_anchored_bias, Pat_bias_end, Pat_kernel}

PatternLists == UNION {[1..n -> Patterns] : n \in 0..MaxPatterns}

PolicyExcludeLists == {NoExclude} \cup {Exclude(l) : l \in PatternLists}

PolicyRates == {0, 10}

ParamNames ==
  {Name_layer1_bias, Str_bias, VarName("bias"), VarName("kernel")}

DoUseWeightDecay(param_name) ==
  /\ decay' = [called |-> TRUE, param_name |-> param_name,
               result |-> _do_use_weight_decay(self, param_name)]
  /\ UNCHANGED <<self, tensors, _slots, slot_vars, var_value, running, call,
                 log>>

PolicyInit ==
  /\ self \in {__init__(100, wd, 900, 999, 1, ex) :
                 wd \in PolicyRates, ex \in PolicyExcludeLists}
  /\ tensors = NoTensors
  /\ _slots = NoSlots
  /\ slot_vars = NoSlotVars
  /\ var_value = [p \in Params |-> InitialValue]
  /\ running = [p \in Params |-> Idle]
  /\ call = Returned("__init__")
  /\ log = [p \in Params |-> <<>>]
  /\ decay = [called |-> FALSE, param_name |-> <<>>, result |-> FALSE]

PolicyNext == \E param_name \in ParamNames : DoUseWeightDecay(param_name)

PolicySpec == PolicyInit /\ [][PolicyNext]_vars

---------------------------------------------------------------------------
(* Properties. *)

Registered(p) == get_slot(p, "m") # None /\ get_slot(p, "v") # None

\* What a reader of parameter p sees: its value and its two accumulators.
Triple(p) == <<var_value[p], SlotValue(p, "m"), SlotValue(p, "v")>>

Decays(p) == _do_use_weight_decay(self, VarName(p))

Range(l) == {l[i] : i \in DOMAIN l}

\* The update rule as the specification writes it, on the hyperparameters
\* the optimizer was constructed with.
UpdateRule(s, grad, var, m, v, decays) ==
  LET next_m == tf_add(tf_multiply(s.beta_1, m),
                       tf_multiply(tf_subtract(One, s.beta_1), grad))
      next_v == tf_add(tf_multiply(s.beta_2, v),
                       tf_multiply(tf_subtract(One, s.beta_2),
                                   tf_multiply(grad, grad)))
      adam == tf_divide(next_m, tf_add(tf_sqrt(next_v), s.epsilon))
      update == IF decays
                THEN tf_add(adam, tf_multiply(s.weight_decay_rate, var))
                ELSE adam
  IN  <<tf_subtract(var, tf_multiply(s.learning_rate, update)), next_m, next_v>>

\* C1: while the assignments of one apply execute, a reader of the parameter
\* sees either the three values from before the step or the three values the
\* step commits, never a mixture.
C1_AtomicCommit ==
  \A p \in Params :
    running[p].active =>
      Triple(p) \in {<<running[p].var, running[p].m, running[p].v>>,
                     <<running[p].next_param, running[p].next_m,
                       running[p].next_v>>}

\* C2: a dense apply (either path) for a parameter that has no slots raises,
\* allocates no slot variable and leaves every parameter, every slot and
\* every running update unchanged.
C2_ApplyWithoutSlotsRaises ==
  [][\A grad \in Grads, var \in Params :
       ((_apply_dense(grad, var) \/ _resource_apply_dense(grad, var))
          /\ ~Registered(var))
       => (/\ call'.raised # NoError
           /\ UNCHANGED <<_slots, slot_vars, var_value, running, log>>)]_vars

\* A dense apply for the unregistered parameter p has just raised, while q is
\* registered and has accumulated an update.
C2_Witness ==
  /\ call.raised = "ValueError: None values not supported"
  /\ \E p \in Params, q \in Params :
       /\ ~Registered(p)
       /\ SlotVarsOf(slot_vars, "m", p) = {}
       /\ SlotVarsOf(slot_vars, "v", p) = {}
       /\ var_value[p] = InitialValue
       /\ Registered(q)
       /\ Len(log[q]) > 0

ValidHyperparameters(s) ==
  /\ 0 < s.beta_1 /\ s.beta_1 < One
  /\ 0 < s.beta_2 /\ s.beta_2 < One
  /\ s.epsilon > 0

\* C3: an optimizer whose methods can run (it was constructed) has beta_1 and
\* beta_2 in (0, 1) and epsilon > 0.
C3_InvalidHyperparametersRejected ==
  self.constructed => ValidHyperparameters(self)

\* Whether pattern r occurs in name s: its literal part is a substring of s,
\* at the start of s when r begins with ^ and at the end when r ends with $.
Occurs(r, s) ==
  LET from == IF r[1] = "^" THEN 2 ELSE 1
      to == IF r[Len(r)] = "$" THEN Len(r) - 1 ELSE Len(r)
      lit == SubSeq(r, from, to)
  IN  \E i \in 1..(Len(s) - Len(lit) + 1) :
        /\ SubSeq(s, i, i + Len(lit) - 1) = lit
        /\ (from = 2 => i = 1)
        /\ (to < Len(r) => i + Len(lit) - 1 = Len(s))

\* C4: _do_use_weight_decay returns true exactly when the rate is not zero
\* and no pattern of the exclusion list occurs in the name; false for rate 0;
\* false for "layer1/bias" with "bias", true for "layer1/bias" with "^bias$";
\* and the same for every list that holds the same patterns in another order.
C4_UsesWeightDecay ==
  decay.called =>
    LET list == self.exclude_from_weight_decay.list
        name == decay.param_name
    IN  /\ decay.result
             = (/\ self.weight_decay_rate # 0
                /\ \A i \in 1..Len(list) : ~Occurs(list[i], name))
        /\ (self.weight_decay_rate = 0 => ~decay.result)
        /\ (self.weight_decay_rate # 0 /\ name = Name_layer1_bias
              /\ list = <<Pat_bias>> => ~decay.result)
        /\ (self.weight_decay_rate # 0 /\ name = Name_layer1_bias
              /\ list = <<Pat_anchored_bias>> => decay.result)
        /\ \A other \in PatternLists :
             Range(other) = Range(list) =>
               _do_use_weight_decay(
                 [self EXCEPT !.exclude_from_weight_decay = Exclude(other)],
                 name) = decay.result

\* The call for "layer1/bias" under the list ["^bias$"] has returned true.
C4_Witness ==
  /\ decay.called
  /\ decay.param_name = Name_layer1_bias
  /\ self.weight_decay_rate # 0
  /\ self.exclude_from_weight_decay = Exclude(<<Pat_anchored_bias>>)
  /\ decay.result

\* The accumulators <<m, v>> that the updates committed for p so far leave:
\* zero before the first, next_m and next_v of the last after it.
Accumulated(p) ==
  IF log[p] = <<>> THEN <<0, 0>>
  ELSE <<log[p][Len(log[p])].next_m, log[p][Len(log[p])].next_v>>

\* C5: every registered parameter has exactly one m and one v slot variable,
\* the first that was allocated for it (an unregistered parameter has none),
\* and while no update of it is running they hold zero before its first
\* update and the last committed next_m and next_v after it: no _create_slots
\* call, however often repeated, adds a slot variable or changes what the
\* next apply reads.
C5_OneAccumulatorPerParameter ==
  \A p \in Params :
    /\ \A n \in SlotNames :
         /\ Cardinality(SlotVarsOf(slot_vars, n, p))
              = (IF Registered(p) THEN 1 ELSE 0)
         /\ (Registered(p) => SlotKey(p, n) = <<n, p, 1>>)
    /\ (Registered(p) /\ ~running[p].active) =>
         <<SlotValue(p, "m"), SlotValue(p, "v")>> = Accumulated(p)

\* _create_slots has just returned for variables that were all registered and
\* have accumulated updates.
C5_Witness ==
  /\ call = Returned("_create_slots")
  /\ \A p \in Params :
       /\ Len(log[p]) > 0
       /\ Registered(p)
       /\ SlotValue(p, "v") # 0

\* C6: a dense apply (either path) for a registered parameter of a prepared
\* optimizer builds the commit of the update rule: next_m, next_v and
\* next_var as the specification writes them, the decay term added before the
\* learning-rate scaling exactly when _do_use_weight_decay holds for the name.
C6_ApplyCommitsUpdateRule ==
  [][\A grad \in Grads, var \in Params :
       ((_apply_dense(grad, var) \/ _resource_apply_dense(grad, var))
          /\ tensors.prepared /\ Registered(var))
       => (/\ running'[var].active
           /\ <<running'[var].next_param, running'[var].next_m,
                running'[var].next_v>>
                = UpdateRule(self, grad, var_value[var], SlotValue(var, "m"),
                             SlotValue(var, "v"), Decays(var)))]_vars

\* The same rule for the updates that were committed, all of them through
\* _resource_apply_dense: every committed update is the update rule applied
\* to what it read, and an idle parameter holds its last commit.
ResourceApplyCommitsUpdateRule ==
  \A p \in Params :
    /\ \A i \in 1..Len(log[p]) :
         <<log[p][i].next_param, log[p][i].next_m, log[p][i].next_v>>
           = UpdateRule(self, log[p][i].grad, log[p][i].var, log[p][i].m,
                        log[p][i].v, Decays(p))
    /\ (~running[p].active /\ Len(log[p]) > 0) =>
         Triple(p) = <<log[p][Len(log[p])].next_param,
                       log[p][Len(log[p])].next_m,
                       log[p][Len(log[p])].next_v>>

ZeroGradientsOnly(p) == \A i \in 1..Len(log[p]) : log[p][i].grad = 0

\* C7: a registered parameter that has only ever been applied zero gradients
\* has m = 0 and v = 0, and its initial value when weight decay does not
\* apply to it.
C7_ZeroGradientFixedPoint ==
  \A p \in Params :
    (Registered(p) /\ ~running[p].active /\ ZeroGradientsOnly(p)) =>
      /\ SlotValue(p, "m") = 0
      /\ SlotValue(p, "v") = 0
      /\ (~Decays(p) => var_value[p] = InitialValue)

\* C7 for an optimizer whose epsilon is not zero.
ZeroGradientFixedPointWithEpsilon ==
  self.epsilon # 0 => C7_ZeroGradientFixedPoint

RECURSIVE Replay(_, _)
\* The state of parameter p after the first i gradients of its own log,
\* computed from its initial state alone.
Replay(p, i) ==
  IF i = 0 THEN <<InitialValue, 0, 0>>
  ELSE LET prev == Replay(p, i - 1)
           u == dense_update(tensors, log[p][i].grad, prev[1], prev[2],
                             prev[3], Decays(p))
       IN  <<u.next_param, u.next_m, u.next_v>>

\* What a reader sees of a value while the group operation r executes: the
\* old value until the assignment has run, the new one after it.
Seen(r, which, old, new) == IF which \in r.pending THEN old ELSE new

\* C8: the state of every parameter is a function of its own gradients
\* alone: an idle parameter holds the result of its own gradients applied in
\* turn to its initial state, a running update read exactly that state and
\* writes only its own value, m and v, and an unregistered parameter keeps
\* its initial value, however the applies of the other parameters were
\* interleaved; the hyperparameters are the ones the optimizer was
\* constructed and prepared with.
C8_ApplyTouchesOwnParameterOnly ==
  /\ tensors.prepared => tensors = _prepare(self)
  /\ \A p \in Params :
       IF ~Registered(p)
       THEN var_value[p] = InitialValue /\ log[p] = <<>> /\ running[p] = Idle
       ELSE IF ~running[p].active
       THEN Triple(p) = Replay(p, Len(log[p]))
       ELSE LET r == running[p]
            IN  /\ <<r.var, r.m, r.v>> = Replay(p, Len(log[p]))
                /\ Triple(p) = <<Seen(r, "var", r.var, r.next_param),
                                 Seen(r, "m", r.m, r.next_m),
                                 Seen(r, "v", r.v, r.next_v)>>

\* One parameter has committed an update that changed it and the other is in
\* the middle of its assignments.
C8_Witness ==
  \E p \in Params, q \in Params :
    /\ p # q
    /\ Len(log[p]) > 0
    /\ var_value[p] # InitialValue
    /\ IsFinite(var_value[p])
    /\ running[q].active
    /\ running[q].pending # {"var", "m", "v"}
    /\ var_value[q] # var_value[p]

\* C9: two committed updates that read the same value, m, v and gradient and
\* made the same weight-decay decision committed the same next_var, next_m
\* and next_v, whatever the number of updates before each.
C9_NoStepDependence ==
  \A p \in Params, q \in Params :
    \A i \in 1..Len(log[p]), j \in 1..Len(log[q]) :
      (/\ log[p][i].grad = log[q][j].grad
       /\ log[p][i].var = log[q][j].var
       /\ log[p][i].m = log[q][j].m
       /\ log[p][i].v = log[q][j].v
       /\ Decays(p) = Decays(q))
      => log[p][i] = log[q][j]

\* Two updates with a gradient that is not zero read the same state, one as a
\* first and one as a second update, and changed the parameter.
C9_Witness ==
  \E p \in Params, q \in Params :
    /\ Len(log[p]) >= 1
    /\ Len(log[q]) >= 2
    /\ log[p][1].grad # 0
    /\ log[p][1] = log[q][2]
    /\ IsFinite(log[p][1].next_param)
    /\ log[p][1].next_param # log[p][1].var

\* C10: where _resource_apply_dense builds its group operation, _apply_dense
\* returns and builds the same one.
C10_DensePathsEquivalent ==
  [][\A grad \in Grads, var \in Params :
       (_apply_dense(grad, var) /\ tensors.prepared /\ Registered(var))
       => (/\ call'.raised = NoError
           /\ running'[var] = Group(grad, var, SlotValue(var, "m"),
                                    SlotValue(var, "v"), Decays(var)))]_vars

=============================================================================
